---- MODULE Spec2Model ----
(***************************************************************************)
(* Model of the portfolio analytics calculation engine of                  *)
(* cryptovault-portfolio (calculateDiversificationScore, assessRiskLevel,  *)
(* calculateAdvancedMetrics, identifyPerformers, validatePortfolioData     *)
(* and the helpers validateInput / safeCalculation), of the price alert    *)
(* monitor PriceAlertService and of the portfolio store portfolioStorage.  *)
(* Each of the three has its own specification: Spec, SpecAlerts and       *)
(* SpecStorage; the variables of the other two stay at their initial       *)
(* values.                                                                 *)
(*                                                                         *)
(* JavaScript values are modelled as tagged records:                       *)
(*   a number-like value is [k |-> kind, v |-> Int] with kind one of       *)
(*   "finite", "NaN", "Infinity", "-Infinity", "undefined", "null",        *)
(*   "string" (a non-numeric, non-empty string);                           *)
(*   an array-like value is [k |-> "array", items |-> sequence], any other *)
(*   kind ("null", "undefined", "object", "number", "string") is a         *)
(*   non-array.                                                            *)
(* Finite numbers are exact decimals held as integers:                     *)
(*   allocation percentages and every result rounded to 2 decimals are in  *)
(*   hundredths (50% is 5000, a score of 88.89 is 8889);                   *)
(*   price_change_percentage_24h is in thousandths (-2.006% is -2006);     *)
(*   current_price and holding_quantity are whole units.                   *)
(* Arithmetic is the exact arithmetic the floating point code             *)
(* approximates.                                                           *)
(***************************************************************************)
EXTENDS Integers, Sequences, FiniteSets, TLC

VARIABLES fn, allocation, assets, totalPortfolioValue, pc, result,
          alerts, runs, notifications, localStorage

engineVars == <<fn, allocation, assets, totalPortfolioValue, pc, result>>
alertVars == <<alerts, runs, notifications>>

vars == <<engineVars, alertVars, localStorage>>

(***************************************************************************)
(* Bounds of the explored inputs.                                          *)
(***************************************************************************)
MaxAllocLen == 3
MaxRiskAllocLen == 2
MaxRiskAssets == 5
MaxAssets == 3
MaxValidateLen == 2
MaxSplit == 5
MaxAlerts == 2
MaxRuns == 2
MaxUpdates == 1
MaxNotifications == 2
MaxQuantity == 3

(***************************************************************************)
(* JavaScript values.                                                      *)
(***************************************************************************)
Num(n) == [k |-> "finite", v |-> n]
NaN == [k |-> "NaN", v |-> 0]
PosInfinity == [k |-> "Infinity", v |-> 0]
NegInfinity == [k |-> "-Infinity", v |-> 0]
Undefined == [k |-> "undefined", v |-> 0]
Null == [k |-> "null", v |-> 0]
Str == [k |-> "string", v |-> 0]

\* typeof x === 'number'
TypeofNumber(x) == x.k \in {"finite", "NaN", "Infinity", "-Infinity"}

\* isNaN(x) || !isFinite(x) for a value whose typeof is 'number'
NotFiniteNumber(x) == x.k \in {"NaN", "Infinity", "-Infinity"}

Arr(s) == [k |-> "array", items |-> s]
NonArray(kind) == [k |-> kind, items |-> <<>>]

\* Array.isArray(x)
IsArray(x) == x.k = "array"

OrZero_defaultOne(x) == IF x.k = "finite" THEN x.v ELSE 1

\* x || 0 for a number-like x: 0, NaN, undefined and null are falsy
OrZero(x) == IF x.k = "finite" THEN x.v ELSE 0

Abs(n) == IF n < 0 THEN -n ELSE n
Min2(a, b) == IF a < b THEN a ELSE b
Max2(a, b) == IF a > b THEN a ELSE b

RoundDiv_truncated(n, d) == n \div d

\* Math.round(n / d) for d > 0: the nearest integer, halves towards +Infinity
RoundDiv(n, d) == (2 * n + d) \div (2 * d)

(***************************************************************************)
(* An array element is either the JavaScript null (isNull) or an object.   *)
(* Reading a property of null raises a TypeError.                          *)
(***************************************************************************)
Asset(i, s, p, q, c) ==
    [isNull |-> FALSE, id |-> i, symbol |-> s, current_price |-> p,
     holding_quantity |-> q, price_change_percentage_24h |-> c]
NullAsset ==
    [isNull |-> TRUE, id |-> "", symbol |-> "", current_price |-> Undefined,
     holding_quantity |-> Undefined, price_change_percentage_24h |-> Undefined]

AllocationData(a, p) == [isNull |-> FALSE, asset |-> a, percentage |-> p]
NullAllocation == [isNull |-> TRUE, asset |-> "", percentage |-> Undefined]

(***************************************************************************)
(* The outcome of running a calculation body: it either threw or returned  *)
(* val; isNumber records typeof val === 'number'.                          *)
(***************************************************************************)
Thrown == [threw |-> TRUE, isNumber |-> FALSE, val |-> 0]
Returned(x) == [threw |-> FALSE, isNumber |-> FALSE, val |-> x]
ReturnedNumber(x) == [threw |-> FALSE, isNumber |-> TRUE, val |-> x]

\* safeCalculation without its try/catch: the exception reaches the caller
safeCalculation_noCatch(calculation, fallback) ==
    IF ~calculation.threw /\ calculation.isNumber
       /\ NotFiniteNumber(calculation.val)
    THEN Returned(fallback)
    ELSE calculation

\* try { result = calculation(); a number that is NaN or not finite gives
\* the fallback } catch { fallback }: the outcome seen by the caller
safeCalculation(calculation, fallback) ==
    IF calculation.threw THEN Returned(fallback)
    ELSE IF calculation.isNumber /\ NotFiniteNumber(calculation.val)
    THEN Returned(fallback)
    ELSE calculation

(***************************************************************************)
(* calculateDiversificationScore                                           *)
(***************************************************************************)
ValidPercentage_typeOnly(p) == p.k = "finite"

\* validator of line 404: typeof val === 'number' && val >= 0 && val <= 100
ValidPercentage(p) == p.k = "finite" /\ p.v >= 0 /\ p.v <= 10000

\* allocation.reduce((sum, item) => { validateInput(...); return sum + p^2 }, 0)
\* from element i on; sum is in units of 10^-4
RECURSIVE HhiReduce(_, _, _)
HhiReduce(items, i, sum) ==
    IF i > Len(items) THEN Returned(sum)
    ELSE IF items[i].isNull THEN Thrown
    ELSE IF ~ValidPercentage(items[i].percentage) THEN Thrown
    ELSE HhiReduce(items, i + 1,
                   sum + items[i].percentage.v * items[i].percentage.v)

NormalizedScore_noClamp(hhi) == 100000000 - hhi

NormalizedScore_notInverted(hhi) == Max2(0, Min2(100000000, hhi))

\* line 415: Math.max(0, Math.min(100, 100 - hhi / 100)), in units of 10^-6
NormalizedScore(hhi) == Max2(0, Min2(100000000, 100000000 - hhi))

DiversificationBody_noSingleCase(alloc) ==
    IF ~IsArray(alloc) THEN Thrown
    ELSE IF Len(alloc.items) = 0 THEN ReturnedNumber(Num(0))
    ELSE LET hhi == HhiReduce(alloc.items, 1, 0)
         IN  IF hhi.threw THEN Thrown
             ELSE ReturnedNumber(Num(RoundDiv(NormalizedScore(hhi.val), 10000)))

\* the function passed to safeCalculation at lines 390-418
DiversificationBody(alloc) ==
    IF ~IsArray(alloc) THEN Thrown
    ELSE IF Len(alloc.items) = 0 THEN ReturnedNumber(Num(0))
    ELSE IF Len(alloc.items) = 1 THEN ReturnedNumber(Num(0))
    ELSE LET hhi == HhiReduce(alloc.items, 1, 0)
         IN  IF hhi.threw THEN Thrown
             ELSE ReturnedNumber(Num(RoundDiv(NormalizedScore(hhi.val), 10000)))

calculateDiversificationScore(alloc) ==
    safeCalculation(DiversificationBody(alloc), Num(0))

(***************************************************************************)
(* assessRiskLevel                                                         *)
(***************************************************************************)
\* Math.max(...allocation.map(a => a.percentage)) for a non-empty array:
\* reading a.percentage of null throws; null counts as 0; NaN, undefined and
\* a non-numeric string make the maximum NaN
RECURSIVE MaxPercentage(_, _, _)
MaxPercentage(items, i, best) ==
    IF i > Len(items) THEN Returned(best)
    ELSE IF items[i].isNull THEN Thrown
    ELSE LET p == items[i].percentage
         IN  IF p.k \in {"NaN", "undefined", "string"} \/ best.k = "NaN"
             THEN MaxPercentage(items, i + 1, NaN)
             ELSE IF i = 1 THEN MaxPercentage(items, i + 1, Num(OrZero(p)))
             ELSE MaxPercentage(items, i + 1, Num(Max2(best.v, OrZero(p))))

\* assets.reduce((sum, asset) => sum + Math.abs(change || 0), 0), thousandths
RECURSIVE AbsChangeSum(_, _, _)
AbsChangeSum(items, i, sum) ==
    IF i > Len(items) THEN Returned(sum)
    ELSE IF items[i].isNull THEN Thrown
    ELSE AbsChangeSum(items, i + 1,
                      sum + Abs(OrZero(items[i].price_change_percentage_24h)))

\* lines 441-445; a NaN maximum fails both comparisons
ConcentrationPoints_swapped(largestAllocation) ==
    IF largestAllocation.k = "finite" /\ largestAllocation.v > 7000 THEN 20
    ELSE IF largestAllocation.k = "finite" /\ largestAllocation.v > 4000 THEN 40
    ELSE 0

ConcentrationPoints(largestAllocation) ==
    IF largestAllocation.k = "finite" /\ largestAllocation.v > 7000 THEN 40
    ELSE IF largestAllocation.k = "finite" /\ largestAllocation.v > 4000 THEN 20
    ELSE 0

AssetCountPoints_strict(assetCount) ==
    IF assetCount < 2 THEN 30
    ELSE IF assetCount < 5 THEN 15
    ELSE 0

\* lines 449-454
AssetCountPoints(assetCount) ==
    IF assetCount < 3 THEN 30
    ELSE IF assetCount < 5 THEN 15
    ELSE 0

VolatilityPoints_noAverage(sum, assetCount) ==
    IF sum > 10000 THEN 30
    ELSE IF sum > 5000 THEN 15
    ELSE 0

\* lines 458-467: avgVolatility = sum / assets.length compared with 10 and 5
VolatilityPoints(sum, assetCount) ==
    IF sum > 10000 * assetCount THEN 30
    ELSE IF sum > 5000 * assetCount THEN 15
    ELSE 0

ClassifyRisk_mediumIsHigh(riskScore) ==
    IF riskScore >= 30 THEN "High"
    ELSE IF riskScore >= 60 THEN "Medium"
    ELSE "Low"

\* lines 471-477
ClassifyRisk(riskScore) ==
    IF riskScore >= 60 THEN "High"
    ELSE IF riskScore >= 30 THEN "Medium"
    ELSE "Low"

RiskBody_bothEmpty(alloc, as) ==
    IF ~IsArray(alloc) THEN Thrown
    ELSE IF ~IsArray(as) THEN Thrown
    ELSE IF Len(alloc.items) = 0 /\ Len(as.items) = 0 THEN Returned("Low")
    ELSE LET largestAllocation == MaxPercentage(alloc.items, 1, Num(0))
             assetCount == Len(as.items)
             sum == AbsChangeSum(as.items, 1, 0)
         IN  IF largestAllocation.threw THEN Thrown
             ELSE IF sum.threw THEN Thrown
             ELSE Returned(ClassifyRisk(ConcentrationPoints(largestAllocation.val)
                                        + AssetCountPoints(assetCount)
                                        + VolatilityPoints(sum.val, assetCount)))

\* the function passed to safeCalculation at lines 428-478
RiskBody(alloc, as) ==
    IF ~IsArray(alloc) THEN Thrown
    ELSE IF ~IsArray(as) THEN Thrown
    ELSE IF Len(alloc.items) = 0 \/ Len(as.items) = 0 THEN Returned("Low")
    ELSE LET largestAllocation == MaxPercentage(alloc.items, 1, Num(0))
             assetCount == Len(as.items)
             sum == AbsChangeSum(as.items, 1, 0)
         IN  IF largestAllocation.threw THEN Thrown
             ELSE IF sum.threw THEN Thrown
             ELSE Returned(ClassifyRisk(ConcentrationPoints(largestAllocation.val)
                                        + AssetCountPoints(assetCount)
                                        + VolatilityPoints(sum.val, assetCount)))

assessRiskLevel(alloc, as) == safeCalculation(RiskBody(alloc, as), "Low")

(***************************************************************************)
(* calculateAdvancedMetrics                                                *)
(* The asset lists explored keep |sum of changes| small enough for the     *)
(* products below to stay inside TLC's integers.                           *)
(***************************************************************************)
\* floor of the square root, by bisection on [lo, hi]
RECURSIVE SqrtSearch(_, _, _)
SqrtSearch(n, lo, hi) ==
    IF lo >= hi THEN lo
    ELSE LET mid == (lo + hi + 1) \div 2
         IN  IF mid * mid <= n THEN SqrtSearch(n, mid, hi)
             ELSE SqrtSearch(n, lo, mid - 1)

\* floor(Math.sqrt(n)) for n >= 0
FloorSqrt(n) == SqrtSearch(n, 0, Min2(n, 46340))

\* assets.map(asset => asset.price_change_percentage_24h || 0), thousandths
RECURSIVE PriceChanges(_, _, _)
PriceChanges(items, i, acc) ==
    IF i > Len(items) THEN Returned(acc)
    ELSE IF items[i].isNull THEN Thrown
    ELSE PriceChanges(items, i + 1,
                      Append(acc, OrZero(items[i].price_change_percentage_24h)))

RECURSIVE SumSeq(_, _)
SumSeq(s, i) == IF i > Len(s) THEN 0 ELSE s[i] + SumSeq(s, i + 1)

RECURSIVE SquaredDeviations_aboutZero(_, _, _, _)
SquaredDeviations_aboutZero(s, i, n, total) ==
    IF i > Len(s) THEN 0
    ELSE (n * s[i]) * (n * s[i]) + SquaredDeviations_aboutZero(s, i + 1, n, total)

\* sum over the changes of (n * change - total)^2, which is n^2 times
\* sum of Math.pow(change - avgChange, 2) with avgChange = total / n
RECURSIVE SquaredDeviations(_, _, _, _)
SquaredDeviations(s, i, n, total) ==
    IF i > Len(s) THEN 0
    ELSE (n * s[i] - total) * (n * s[i] - total)
         + SquaredDeviations(s, i + 1, n, total)

RECURSIVE MinNegative_unclipped(_, _)
MinNegative_unclipped(s, i) ==
    IF i = Len(s) THEN s[i] ELSE Min2(s[i], MinNegative_unclipped(s, i + 1))

\* Math.min(...priceChanges.map(change => Math.min(0, change)))
RECURSIVE MinNegative(_, _)
MinNegative(s, i) ==
    IF i > Len(s) THEN 0 ELSE Min2(Min2(0, s[i]), MinNegative(s, i + 1))

\* Math.round(volatility * 100) with volatility = Math.sqrt(variance),
\* variance = dev / n^3 in thousandths squared: the result is in hundredths
RoundedVolatility(dev, n) == (FloorSqrt(dev \div (n * n * n)) + 5) \div 10

\* Math.round((avgChange / volatility) * 100) for volatility # 0:
\* |avgChange / volatility| = sqrt(total^2 * n / dev)
RoundedRatio(total, dev, n) ==
    LET num == 40000 * total * total * n
        m == FloorSqrt(num \div dev)
        exact == m * m * dev = num
    IN  IF total >= 0 THEN (m + 1) \div 2
        ELSE -((IF exact THEN m ELSE m + 1) \div 2)

\* line 507 and line 514: avgChange !== 0 ? avgChange / volatility : 0;
\* a non-zero average over a zero volatility is +-Infinity (for a single
\* asset also in floating point, where avgChange is the change itself; for
\* several equal changes the rounding of the average can leave a tiny
\* volatility and a huge finite ratio instead)
SharpeRatio(total, dev, n) ==
    IF total # 0
    THEN IF dev = 0
         THEN IF total > 0 THEN PosInfinity ELSE NegInfinity
         ELSE Num(RoundedRatio(total, dev, n))
    ELSE Num(0)

ZeroMetrics == [volatility |-> Num(0), sharpeRatio |-> Num(0), maxDrawdown |-> Num(0)]

\* without the early return of lines 491-497: the average of no changes is
\* 0 / 0 and Math.min() of no arguments is Infinity
MetricsBody_noEmptyCheck(as) ==
    IF ~IsArray(as) THEN Thrown
    ELSE IF Len(as.items) = 0
    THEN Returned([volatility |-> NaN, sharpeRatio |-> NaN, maxDrawdown |-> PosInfinity])
    ELSE LET changes == PriceChanges(as.items, 1, <<>>) IN
         IF changes.threw THEN Thrown
         ELSE LET priceChanges == changes.val
                  n == Len(priceChanges)
                  total == SumSeq(priceChanges, 1)
                  dev == SquaredDeviations(priceChanges, 1, n, total)
                  maxDrawdown == MinNegative(priceChanges, 1)
              IN  Returned([volatility |-> Num(RoundedVolatility(dev, n)),
                            sharpeRatio |-> SharpeRatio(total, dev, n),
                            maxDrawdown |-> Num(RoundDiv(Abs(maxDrawdown), 10))])

\* the function passed to safeCalculation at lines 487-517
MetricsBody(as) ==
    IF ~IsArray(as) THEN Thrown
    ELSE IF Len(as.items) = 0 THEN Returned(ZeroMetrics)
    ELSE LET changes == PriceChanges(as.items, 1, <<>>) IN
         IF changes.threw THEN Thrown
         ELSE LET priceChanges == changes.val
                  n == Len(priceChanges)
                  total == SumSeq(priceChanges, 1)
                  dev == SquaredDeviations(priceChanges, 1, n, total)
                  maxDrawdown == MinNegative(priceChanges, 1)
              IN  Returned([volatility |-> Num(RoundedVolatility(dev, n)),
                            sharpeRatio |-> SharpeRatio(total, dev, n),
                            maxDrawdown |-> Num(RoundDiv(Abs(maxDrawdown), 10))])

calculateAdvancedMetrics(as) == safeCalculation(MetricsBody(as), ZeroMetrics)

(***************************************************************************)
(* identifyPerformers                                                      *)
(***************************************************************************)
NoPerformer ==
    [isNull |-> TRUE, asset |-> NullAsset, percentage |-> 0, gainLoss |-> 0,
     value |-> 0]

PerformerData_gainOnPrice(asset) ==
    LET value == OrZero(asset.current_price) * OrZero(asset.holding_quantity)
        percentage == OrZero(asset.price_change_percentage_24h)
    IN  [isNull |-> FALSE, asset |-> asset, percentage |-> percentage,
         gainLoss |-> OrZero(asset.current_price) * percentage, value |-> value]

\* lines 539-550; percentage is in thousandths, gainLoss in units of 10^-5
PerformerData(asset) ==
    LET value == OrZero(asset.current_price) * OrZero(asset.holding_quantity)
        percentage == OrZero(asset.price_change_percentage_24h)
    IN  [isNull |-> FALSE, asset |-> asset, percentage |-> percentage,
         gainLoss |-> value * percentage, value |-> value]

RECURSIVE PerformanceData(_, _, _)
PerformanceData(items, i, acc) ==
    IF i > Len(items) THEN Returned(acc)
    ELSE IF items[i].isNull THEN Thrown
    ELSE PerformanceData(items, i + 1, Append(acc, PerformerData(items[i])))

RECURSIVE ReduceBest_lastWins(_, _, _)
ReduceBest_lastWins(data, i, best) ==
    IF i > Len(data) THEN best
    ELSE ReduceBest_lastWins(data, i + 1,
                             IF data[i].percentage >= best.percentage
                             THEN data[i] ELSE best)

\* performanceData.reduce((best, current) =>
\*     current.percentage > best.percentage ? current : best)
RECURSIVE ReduceBest(_, _, _)
ReduceBest(data, i, best) ==
    IF i > Len(data) THEN best
    ELSE ReduceBest(data, i + 1,
                    IF data[i].percentage > best.percentage THEN data[i] ELSE best)

RECURSIVE ReduceWorst_copiedFromBest(_, _, _)
ReduceWorst_copiedFromBest(data, i, worst) ==
    IF i > Len(data) THEN worst
    ELSE ReduceWorst_copiedFromBest(data, i + 1,
                     IF data[i].percentage > worst.percentage THEN data[i] ELSE worst)

\* performanceData.reduce((worst, current) =>
\*     current.percentage < worst.percentage ? current : worst)
RECURSIVE ReduceWorst(_, _, _)
ReduceWorst(data, i, worst) ==
    IF i > Len(data) THEN worst
    ELSE ReduceWorst(data, i + 1,
                     IF data[i].percentage < worst.percentage THEN data[i] ELSE worst)

ValidTotal_positive(total) == total.k = "Infinity" \/ (total.k = "finite" /\ total.v > 0)

\* validator of line 529: typeof val === 'number' && val >= 0
ValidTotal(total) == total.k = "Infinity" \/ (total.k = "finite" /\ total.v >= 0)

NoPerformers == [bestPerformer |-> NoPerformer, worstPerformer |-> NoPerformer]

Performers_unfiltered(data) ==
    [bestPerformer |-> ReduceBest(data, 2, data[1]),
     worstPerformer |-> ReduceWorst(data, 2, data[1])]

\* lines 553-564
Performers(data) ==
    LET bestPerformer == ReduceBest(data, 2, data[1])
        worstPerformer == ReduceWorst(data, 2, data[1])
    IN  [bestPerformer |-> IF bestPerformer.percentage > 0
                           THEN bestPerformer ELSE NoPerformer,
         worstPerformer |-> IF worstPerformer.percentage < 0
                            THEN worstPerformer ELSE NoPerformer]

\* the function passed to safeCalculation at lines 526-565
PerformersBody(as, total) ==
    IF ~IsArray(as) THEN Thrown
    ELSE IF ~ValidTotal(total) THEN Thrown
    ELSE IF Len(as.items) = 0 THEN Returned(NoPerformers)
    ELSE LET performanceData == PerformanceData(as.items, 1, <<>>) IN
         IF performanceData.threw THEN Thrown
         ELSE Returned(Performers(performanceData.val))

identifyPerformers(as, total) ==
    safeCalculation(PerformersBody(as, total), NoPerformers)

(***************************************************************************)
(* validatePortfolioData                                                   *)
(* A message `Asset ${index + 1}: text` is the pair of its number and its  *)
(* text; the two whole-portfolio messages carry the number 0.              *)
(***************************************************************************)
Message(n, text) == [asset |-> n, text |-> text]

\* typeof x !== 'number' || x < 0
NotNonNegativeNumber(x) == ~TypeofNumber(x) \/ (x.k = "finite" /\ x.v < 0)
                               \/ x.k = "-Infinity"

\* x !== null && typeof x !== 'number'
InvalidPriceChange(x) == x.k # "null" /\ ~TypeofNumber(x)

AssetErrors_shortCircuit(asset, index) ==
    IF asset.id = "" THEN <<Message(index + 1, "Missing ID")>>
    ELSE IF asset.symbol = "" THEN <<Message(index + 1, "Missing symbol")>>
    ELSE IF NotNonNegativeNumber(asset.current_price)
         THEN <<Message(index + 1, "Invalid current price")>>
    ELSE IF NotNonNegativeNumber(asset.holding_quantity)
         THEN <<Message(index + 1, "Invalid holding quantity")>>
    ELSE IF InvalidPriceChange(asset.price_change_percentage_24h)
         THEN <<Message(index + 1, "Invalid price change percentage")>>
    ELSE <<>>

\* the callback of assets.forEach at lines 589-610, index counted from 0
AssetErrors(asset, index) ==
    (IF asset.id = "" THEN <<Message(index + 1, "Missing ID")>> ELSE <<>>)
    \o (IF asset.symbol = "" THEN <<Message(index + 1, "Missing symbol")>> ELSE <<>>)
    \o (IF NotNonNegativeNumber(asset.current_price)
        THEN <<Message(index + 1, "Invalid current price")>> ELSE <<>>)
    \o (IF NotNonNegativeNumber(asset.holding_quantity)
        THEN <<Message(index + 1, "Invalid holding quantity")>> ELSE <<>>)
    \o (IF InvalidPriceChange(asset.price_change_percentage_24h)
        THEN <<Message(index + 1, "Invalid price change percentage")>> ELSE <<>>)

RECURSIVE ForEachAsset(_, _, _)
ForEachAsset(items, i, errors) ==
    IF i > Len(items) THEN Returned(errors)
    ELSE IF items[i].isNull THEN Thrown
    ELSE ForEachAsset(items, i + 1, errors \o AssetErrors(items[i], i - 1))

ValidationFailed ==
    [isValid |-> FALSE, errors |-> <<Message(0, "Validation failed")>>]

ValidationBody_noEmptyCheck(as) ==
    IF ~IsArray(as)
    THEN Returned([isValid |-> FALSE,
                   errors |-> <<Message(0, "Assets must be an array")>>])
    ELSE LET errors == ForEachAsset(as.items, 1, <<>>) IN
         IF errors.threw THEN Thrown
         ELSE Returned([isValid |-> Len(errors.val) = 0, errors |-> errors.val])

\* the function passed to safeCalculation at lines 574-616
ValidationBody(as) ==
    IF ~IsArray(as)
    THEN Returned([isValid |-> FALSE,
                   errors |-> <<Message(0, "Assets must be an array")>>])
    ELSE IF Len(as.items) = 0
    THEN Returned([isValid |-> FALSE,
                   errors |-> <<Message(0, "Portfolio cannot be empty")>>])
    ELSE LET errors == ForEachAsset(as.items, 1, <<>>) IN
         IF errors.threw THEN Thrown
         ELSE Returned([isValid |-> Len(errors.val) = 0, errors |-> errors.val])

validatePortfolioData(as) == safeCalculation(ValidationBody(as), ValidationFailed)

(***************************************************************************)
(* The inputs explored.                                                    *)
(***************************************************************************)
SeqsUpTo(S, n) == UNION {[1..m -> S] : m \in 0..n}

NonArrays == {NonArray(kind) : kind \in {"null", "undefined", "object", "number", "string"}}

NoArray == NonArray("undefined")

\* allocation entries for calculateDiversificationScore: valid percentages
\* (0, 12.5, 33.33, 50, 100), invalid ones (-0.01, 100.01, NaN, a string)
\* and a null element
DivEntries ==
    {AllocationData("bitcoin", Num(p)) : p \in {0, 1250, 3333, 5000, 10000}}
    \cup {AllocationData("ethereum", Num(5000)),
          AllocationData("bitcoin", Num(-1)), AllocationData("bitcoin", Num(10001)),
          AllocationData("bitcoin", NaN), AllocationData("bitcoin", Str),
          NullAllocation}

\* one asset at 90% and the other n - 1 splitting 10% equally, and the same
\* n assets at 100 / n % each, to the nearest hundredth of a percent
Concentrated(n) ==
    [i \in 1..n |-> AllocationData("bitcoin",
                       IF i = 1 THEN Num(9000) ELSE Num(RoundDiv(1000, n - 1)))]

EvenSplit(n) == [i \in 1..n |-> AllocationData("bitcoin", Num(RoundDiv(10000, n)))]

SplitAllocations ==
    {Arr(Concentrated(n)) : n \in 2..MaxSplit} \cup {Arr(EvenSplit(n)) : n \in 2..MaxSplit}

DivAllocations ==
    {Arr(s) : s \in SeqsUpTo(DivEntries, MaxAllocLen)} \cup NonArrays
    \cup SplitAllocations

\* allocation entries for assessRiskLevel: around the thresholds 40 and 70
RiskEntries ==
    {AllocationData("bitcoin", Num(p)) : p \in {2000, 4000, 4001, 7000, 7001}}
    \cup {AllocationData("bitcoin", NaN), NullAllocation}

RiskAllocations ==
    {Arr(s) : s \in SeqsUpTo(RiskEntries, MaxRiskAllocLen)} \cup {NonArray("null")}

\* assets for assessRiskLevel: a missing change, -10% and +15%, and null
RiskAssetPool ==
    {Asset("cardano", "ADA", Num(1), Num(10), Undefined),
     Asset("ethereum", "ETH", Num(3000), Num(10), Num(-10000)),
     Asset("solana", "SOL", Num(100), Num(50), Num(15000)),
     NullAsset}

RiskAssets ==
    {Arr(s) : s \in SeqsUpTo(RiskAssetPool, MaxRiskAssets)} \cup {NonArray("null")}

\* allocations with a percentage outside [0, 100]: -5%, 100.01% or 150%,
\* alone or before a 20% entry
OutOfRangeAllocations ==
    {Arr(<<AllocationData("bitcoin", Num(p))>>) : p \in {-500, 10001, 15000}}
    \cup {Arr(<<AllocationData("bitcoin", Num(p)), AllocationData("ethereum", Num(2000))>>) :
             p \in {-500, 10001, 15000}}

\* five assets at 20% each, with 24h changes of 5%, -5% and -20%
EvenFiveAllocation == Arr([i \in 1..5 |-> AllocationData("bitcoin", Num(2000))])

CalmAssetPool ==
    {Asset("bitcoin", "BTC", Num(50000), Num(1), Num(5000)),
     Asset("ethereum", "ETH", Num(3000), Num(10), Num(-5000)),
     Asset("solana", "SOL", Num(100), Num(50), Num(-20000))}

EvenFiveAssets == {Arr(s) : s \in [1..5 -> CalmAssetPool]}

\* assets for calculateAdvancedMetrics and identifyPerformers: changes of
\* 0.025%, -0.006%, 0.002%, missing (undefined, null), NaN, and null
AssetPool ==
    {Asset("bitcoin", "BTC", Num(100), Num(2), Num(25)),
     Asset("ethereum", "ETH", Num(10), Num(3), Num(-6)),
     Asset("solana", "SOL", Num(5), Num(1), Num(2)),
     Asset("cardano", "ADA", Num(1), Num(10), Undefined),
     Asset("ripple", "XRP", Num(2), Num(5), Num(25)),
     Asset("dogecoin", "DOGE", Num(-3), Num(4), Num(-6)),
     Asset("tether", "USDT", Num(1), Num(100), Null),
     Asset("litecoin", "LTC", Num(70), Num(1), NaN),
     NullAsset}

\* assets whose changes have at most 2 decimals: -0.02%, 0.01%, -0.01%, 0.02%
\* and a missing one
RoundAssetPool ==
    {Asset("bitcoin", "BTC", Num(100), Num(2), Num(-20)),
     Asset("ethereum", "ETH", Num(10), Num(3), Num(10)),
     Asset("solana", "SOL", Num(5), Num(1), Num(-10)),
     Asset("ripple", "XRP", Num(2), Num(5), Num(20)),
     Asset("cardano", "ADA", Num(1), Num(10), Undefined)}

AssetLists ==
    {Arr(s) : s \in SeqsUpTo(AssetPool, MaxAssets)} \cup NonArrays
    \cup {Arr(s) : s \in SeqsUpTo(RoundAssetPool, MaxAssets)}

Totals == {Num(0), Num(85000), Num(-1), NaN, Str, Undefined}

\* assets for validatePortfolioData: every combination of the five faults,
\* other valid and faulty field values, and null
FaultyAssets ==
    {Asset(i, s, p, q, c) :
        i \in {"", "bitcoin"}, s \in {"", "BTC"},
        p \in {Num(50000), Num(-100)}, q \in {Num(1), Str},
        c \in {Num(5000), Str}}

ValidateAssetPool ==
    FaultyAssets
    \cup {Asset("bitcoin", "BTC", p, Num(1), Num(5000)) : p \in {Num(0), Undefined, NaN}}
    \cup {Asset("bitcoin", "BTC", Num(50000), q, Num(5000)) : q \in {Num(0), Num(-1), Null}}
    \cup {Asset("bitcoin", "BTC", Num(50000), Num(1), c) : c \in {Num(-2000), Null, Undefined, NaN}}
    \cup {NullAsset}

ValidateInputs ==
    {Arr(s) : s \in SeqsUpTo(ValidateAssetPool, MaxValidateLen)} \cup NonArrays

(***************************************************************************)
(* The browser's localStorage: an item per key, absent until it is set.    *)
(***************************************************************************)
AlertsKey == "cryptovault_price_alerts"
PortfolioKey == "cryptovault_portfolio_user"

NoItem == [present |-> FALSE, value |-> <<>>]
Item(v) == [present |-> TRUE, value |-> v]

StorageIdle == localStorage = [key \in {AlertsKey, PortfolioKey} |-> NoItem]

EngineIdle ==
    /\ fn = "none" /\ pc = "idle" /\ result = "none"
    /\ allocation = NoArray /\ assets = NoArray /\ totalPortfolioValue = Undefined

(***************************************************************************)
(* PriceAlertService                                                       *)
(* The k-th alert created has id k (the source draws a fresh random id).   *)
(* alerts[id] is the object the Map holds for id: slot is "set" while the  *)
(* Map has the key, "unused" before the id is created and "deleted" after  *)
(* deleteAlert.  version names the object: updateAlert puts a new object   *)
(* in the Map, so an object a running check captured earlier is the Map's  *)
(* object only while the versions agree.  A run of checkAlerts that is     *)
(* awaiting the prices holds its activeAlerts: for each captured object    *)
(* the id, the version and the fields the loop reads, which no method      *)
(* changes in place.  What the loop writes to an object that is no longer  *)
(* in the Map is never read again and is not kept.                         *)
(* notifications[id] counts the notifications triggerAlert has sent for id *)
(* since the alert was created or last reactivated, up to                  *)
(* MaxNotifications.                                                       *)
(***************************************************************************)
AlertIds == 1..MaxAlerts

Coins == {"bitcoin"}

NoAlert(slot) ==
    [slot |-> slot, version |-> 0, coinId |-> "", alertType |-> "",
     targetValue |-> 0, currentValue |-> Undefined, isActive |-> FALSE,
     isTriggered |-> FALSE]

PriceAlert(coinId, alertType, targetValue, isActive) ==
    [slot |-> "set", version |-> 0, coinId |-> coinId, alertType |-> alertType,
     targetValue |-> targetValue, currentValue |-> Undefined,
     isActive |-> isActive, isTriggered |-> FALSE]

\* the alerts a caller creates: active, with a target of 100
NewAlerts ==
    {PriceAlert(c, t, 100, TRUE) :
        c \in Coins, t \in {"price_above", "price_below", "percentage_change"}}

\* the updates a caller makes: a new target, isActive and isTriggered untouched
Updates == {50}

\* what getMultipleCoinPrices resolves to: a price of 80 or 120 per coin, or
\* no entry for the coin (for every coin when the request failed)
Prices == [Coins -> {Num(80), Num(120), Undefined}]

AlertsIdle ==
    /\ alerts = [id \in AlertIds |-> NoAlert("unused")]
    /\ runs = <<>>
    /\ notifications = [id \in AlertIds |-> 0]

\* Array.from(this.alerts.values()) as written by JSON.stringify: the Map
\* keeps insertion order, which is the order of the ids
RECURSIVE AlertsArray(_, _)
AlertsArray(map, id) ==
    IF id > MaxAlerts THEN <<>>
    ELSE (IF map[id].slot = "set"
          THEN <<[id |-> id, coinId |-> map[id].coinId,
                  alertType |-> map[id].alertType,
                  targetValue |-> map[id].targetValue,
                  currentValue |-> map[id].currentValue,
                  isActive |-> map[id].isActive,
                  isTriggered |-> map[id].isTriggered]>>
          ELSE <<>>)
         \o AlertsArray(map, id + 1)

saveAlertsToStorage(map) ==
    [localStorage EXCEPT ![AlertsKey] = Item(AlertsArray(map, 1))]

\* the Map rebuilt from the stored array; an id that is not stored stays
\* unused or deleted
loadAlertsFromStorage(item) ==
    [id \in AlertIds |->
        IF \E i \in 1..Len(item.value) : item.value[i].id = id
        THEN LET stored == CHOOSE a \in {item.value[i] : i \in 1..Len(item.value)} : a.id = id
             IN  [slot |-> "set", version |-> 0, coinId |-> stored.coinId,
                  alertType |-> stored.alertType,
                  targetValue |-> stored.targetValue,
                  currentValue |-> stored.currentValue,
                  isActive |-> stored.isActive,
                  isTriggered |-> stored.isTriggered]
        ELSE NoAlert(IF alerts[id].slot = "unused" THEN "unused" ELSE "deleted")]

\* the object of the Map as a running check holds it
Captured(id, alert) ==
    [id |-> id, version |-> alert.version, coinId |-> alert.coinId,
     alertType |-> alert.alertType, targetValue |-> alert.targetValue]

\* Array.from(this.alerts.values()).filter(alert => alert.isActive &&
\* !alert.isTriggered), from id on
RECURSIVE ActiveAlerts(_, _)
ActiveAlerts(map, id) ==
    IF id > MaxAlerts THEN <<>>
    ELSE (IF map[id].slot = "set" /\ map[id].isActive /\ ~map[id].isTriggered
          THEN <<Captured(id, map[id])>> ELSE <<>>)
         \o ActiveAlerts(map, id + 1)

isAlertTriggered(alert, currentPrice) ==
    CASE alert.alertType = "price_above" -> currentPrice >= alert.targetValue
      [] alert.alertType = "price_below" -> currentPrice <= alert.targetValue
      [] OTHER -> FALSE

\* whether the captured object is still the object the Map holds
StillInMap(map, alert) ==
    map[alert.id].slot = "set" /\ map[alert.id].version = alert.version

\* triggerAlert: alert.isTriggered = true and sendNotifications
triggerAlert(state, alert) ==
    [alerts |-> IF StillInMap(state.alerts, alert)
                THEN [state.alerts EXCEPT ![alert.id].isTriggered = TRUE]
                ELSE state.alerts,
     notifications |-> [state.notifications EXCEPT
                           ![alert.id] = Min2(@ + 1, MaxNotifications)]]

\* for (const alert of activeAlerts) { ... } from element i on; state is
\* the Map and the notifications sent
RECURSIVE CheckEach(_, _, _, _)
CheckEach(activeAlerts, i, prices, state) ==
    IF i > Len(activeAlerts) THEN state
    ELSE LET alert == activeAlerts[i]
             currentPrice == prices[alert.coinId]
             updated ==
                 [state EXCEPT !.alerts =
                     IF StillInMap(state.alerts, alert)
                     THEN [state.alerts EXCEPT ![alert.id].currentValue = currentPrice]
                     ELSE state.alerts]
         IN  IF currentPrice = Undefined
             THEN CheckEach(activeAlerts, i + 1, prices, state)
             ELSE IF isAlertTriggered(alert, currentPrice.v)
             THEN CheckEach(activeAlerts, i + 1, prices, triggerAlert(updated, alert))
             ELSE CheckEach(activeAlerts, i + 1, prices, updated)

RemoveAt(s, i) == SubSeq(s, 1, i - 1) \o SubSeq(s, i + 1, Len(s))

CreateAlert(alert) ==
    /\ \E id \in AlertIds :
          /\ alerts[id].slot = "unused"
          /\ \A other \in 1..(id - 1) : alerts[other].slot # "unused"
          /\ alerts' = [alerts EXCEPT ![id] = alert]
    /\ localStorage' = saveAlertsToStorage(alerts')
    /\ UNCHANGED <<runs, notifications, engineVars>>

UpdateAlert(id, targetValue) ==
    \/ /\ alerts[id].slot # "set"
       /\ UNCHANGED vars
    \/ /\ alerts[id].slot = "set"
       /\ alerts[id].version < MaxUpdates
       /\ alerts' = [alerts EXCEPT ![id].targetValue = targetValue,
                                   ![id].version = @ + 1]
       /\ localStorage' = saveAlertsToStorage(alerts')
       /\ UNCHANGED <<runs, notifications, engineVars>>

DeleteAlert(id) ==
    \/ /\ alerts[id].slot # "set"
       /\ UNCHANGED vars
    \/ /\ alerts[id].slot = "set"
       /\ alerts' = [alerts EXCEPT ![id] = NoAlert("deleted")]
       /\ localStorage' = saveAlertsToStorage(alerts')
       /\ UNCHANGED <<runs, notifications, engineVars>>

ToggleAlert(id) ==
    \/ /\ alerts[id].slot # "set"
       /\ UNCHANGED vars
    \/ /\ alerts[id].slot = "set"
       /\ alerts' = [alerts EXCEPT ![id].isActive = ~@,
                                   ![id].isTriggered = IF alerts[id].isActive THEN @ ELSE FALSE]
       /\ notifications' = IF alerts[id].isActive THEN notifications
                           ELSE [notifications EXCEPT ![id] = 0]
       /\ localStorage' = saveAlertsToStorage(alerts')
       /\ UNCHANGED <<runs, engineVars>>

\* the timer fires: checkAlerts up to its await
StartCheck ==
    LET activeAlerts == ActiveAlerts(alerts, 1) IN
    \/ /\ Len(activeAlerts) = 0
       /\ UNCHANGED vars
    \/ /\ Len(activeAlerts) > 0
       /\ Len(runs) < MaxRuns
       /\ runs' = Append(runs, activeAlerts)
       /\ UNCHANGED <<alerts, notifications, localStorage, engineVars>>

\* the prices arrive: checkAlerts from its await to its end
FinishCheck(r, prices) ==
    LET state == CheckEach(runs[r], 1, prices,
                           [alerts |-> alerts, notifications |-> notifications])
    IN  /\ alerts' = state.alerts
        /\ notifications' = state.notifications
        /\ localStorage' = saveAlertsToStorage(alerts')
        /\ runs' = RemoveAt(runs, r)
        /\ UNCHANGED engineVars

\* the page is loaded again: the constructor reads the stored alerts and
\* starts the timer; the runs of the page before are gone
Reload ==
    /\ alerts' = IF localStorage[AlertsKey].present
                 THEN loadAlertsFromStorage(localStorage[AlertsKey])
                 ELSE alerts
    /\ runs' = <<>>
    /\ UNCHANGED <<notifications, localStorage, engineVars>>

InitAlerts == EngineIdle /\ AlertsIdle /\ StorageIdle

NextAlerts ==
    \/ \E alert \in NewAlerts : CreateAlert(alert)
    \/ \E id \in AlertIds, targetValue \in Updates : UpdateAlert(id, targetValue)
    \/ \E id \in AlertIds : DeleteAlert(id)
    \/ \E id \in AlertIds : ToggleAlert(id)
    \/ StartCheck
    \/ \E r \in 1..Len(runs), prices \in Prices : FinishCheck(r, prices)
    \/ Reload

SpecAlerts == InitAlerts /\ [][NextAlerts]_vars

(***************************************************************************)
(* portfolioStorage                                                        *)
(* The stored portfolio of one user: the item under the user's key holds   *)
(* the assets array of the StoredPortfolioData.  Of a UserPortfolioAsset   *)
(* the id and the holding_quantity are kept; a quantity is a number, NaN,  *)
(* or the null that JSON writes for NaN.                                   *)
(***************************************************************************)
UserPortfolioAsset(id, quantity) == [id |-> id, holding_quantity |-> quantity]

PortfolioIds == {"bitcoin", "ethereum", "solana"}

\* the quantities a caller passes: -1, 0, 1, 2 and NaN
Quantities == {Num(-1), Num(0), Num(1), Num(2), NaN}

\* JSON.parse(JSON.stringify(x)) for a number: NaN comes back as null
JsonNumber(x) == IF x.k = "finite" THEN x ELSE Null

\* a + b for numbers and null: null counts as 0, NaN makes the sum NaN
JsAdd(a, b) ==
    IF a.k = "NaN" \/ b.k = "NaN" THEN NaN
    ELSE Num((IF a.k = "finite" THEN a.v ELSE 0) + (IF b.k = "finite" THEN b.v ELSE 0))

\* the item written by localStorage.setItem(key, JSON.stringify(portfolioData))
savePortfolioData(userAssets) ==
    Item([i \in 1..Len(userAssets) |->
             [userAssets[i] EXCEPT !.holding_quantity = JsonNumber(@)]])

\* the assets of the stored item, [] when there is none
loadPortfolioData(item) == IF item.present THEN item.value ELSE <<>>

\* currentAssets.findIndex(a => a.id === id), counted from 1; 0 for -1
FindIndex(currentAssets, id) ==
    IF \E i \in 1..Len(currentAssets) : currentAssets[i].id = id
    THEN CHOOSE i \in 1..Len(currentAssets) :
             /\ currentAssets[i].id = id
             /\ \A j \in 1..(i - 1) : currentAssets[j].id # id
    ELSE 0

addAsset_alwaysPush(currentAssets, asset) == Append(currentAssets, asset)

\* lines 85-93: add to the quantity of the entry found, or push the asset
addAsset(currentAssets, asset) ==
    LET existingIndex == FindIndex(currentAssets, asset.id) IN
    IF existingIndex >= 1
    THEN [currentAssets EXCEPT ![existingIndex].holding_quantity =
                                   JsAdd(@, asset.holding_quantity)]
    ELSE Append(currentAssets, asset)

\* currentAssets.filter(a => a.id !== assetId)
RECURSIVE removeAsset(_, _)
removeAsset(currentAssets, assetId) ==
    IF Len(currentAssets) = 0 THEN <<>>
    ELSE (IF Head(currentAssets).id # assetId THEN <<Head(currentAssets)>> ELSE <<>>)
         \o removeAsset(Tail(currentAssets), assetId)

\* newQuantity <= 0
NotPositive(newQuantity) == newQuantity.k = "finite" /\ newQuantity.v <= 0

\* lines 115-120, for the index of an entry found
updateQuantity(currentAssets, assetIndex, newQuantity) ==
    IF NotPositive(newQuantity) THEN RemoveAt(currentAssets, assetIndex)
    ELSE [currentAssets EXCEPT ![assetIndex].holding_quantity = newQuantity]

\* every quantity explored is within MaxQuantity
WithinMaxQuantity(userAssets) ==
    \A i \in 1..Len(userAssets) :
        userAssets[i].holding_quantity.k = "finite" =>
            Abs(userAssets[i].holding_quantity.v) <= MaxQuantity

StoredAssets == loadPortfolioData(localStorage[PortfolioKey])

Store(userAssets) ==
    /\ localStorage' = [localStorage EXCEPT ![PortfolioKey] = savePortfolioData(userAssets)]
    /\ UNCHANGED <<engineVars, alertVars>>

AddAssetToPortfolio(asset) ==
    /\ WithinMaxQuantity(addAsset(StoredAssets, asset))
    /\ Store(addAsset(StoredAssets, asset))

RemoveAssetFromPortfolio(assetId) == Store(removeAsset(StoredAssets, assetId))

UpdateAssetQuantity(assetId, newQuantity) ==
    LET assetIndex == FindIndex(StoredAssets, assetId) IN
    \/ /\ assetIndex = 0
       /\ UNCHANGED vars
    \/ /\ assetIndex >= 1
       /\ Store(updateQuantity(StoredAssets, assetIndex, newQuantity))

ClearPortfolio ==
    /\ localStorage' = [localStorage EXCEPT ![PortfolioKey] = NoItem]
    /\ UNCHANGED <<engineVars, alertVars>>

InitStorage == EngineIdle /\ AlertsIdle /\ StorageIdle

NextStorage ==
    \/ \E id \in PortfolioIds, quantity \in Quantities :
          AddAssetToPortfolio(UserPortfolioAsset(id, quantity))
    \/ \E id \in PortfolioIds : RemoveAssetFromPortfolio(id)
    \/ \E id \in PortfolioIds, quantity \in Quantities : UpdateAssetQuantity(id, quantity)
    \/ ClearPortfolio

SpecStorage == InitStorage /\ [][NextStorage]_vars

(***************************************************************************)
(* A caller invokes one engine function on its arguments (pc = "call");    *)
(* the function either returns a value (pc = "returned", result) or lets   *)
(* an exception reach the caller (pc = "threw").                           *)
(***************************************************************************)
Init ==
    /\ AlertsIdle /\ StorageIdle
    /\ pc = "call"
    /\ result = "none"
    /\ \/ /\ fn = "calculateDiversificationScore"
          /\ allocation \in DivAllocations
          /\ assets = NoArray
          /\ totalPortfolioValue = Undefined
       \/ /\ fn = "assessRiskLevel"
          /\ \/ allocation \in RiskAllocations \cup OutOfRangeAllocations
                /\ assets \in RiskAssets
             \/ allocation = EvenFiveAllocation /\ assets \in EvenFiveAssets
          /\ totalPortfolioValue = Undefined
       \/ /\ fn = "calculateAdvancedMetrics"
          /\ allocation = NoArray
          /\ assets \in AssetLists
          /\ totalPortfolioValue = Undefined
       \/ /\ fn = "identifyPerformers"
          /\ allocation = NoArray
          /\ assets \in AssetLists
          /\ totalPortfolioValue \in Totals
       \/ /\ fn = "validatePortfolioData"
          /\ allocation = NoArray
          /\ assets \in ValidateInputs
          /\ totalPortfolioValue = Undefined

Return(outcome) ==
    /\ pc' = IF outcome.threw THEN "threw" ELSE "returned"
    /\ result' = outcome.val
    /\ UNCHANGED <<fn, allocation, assets, totalPortfolioValue>>
    /\ UNCHANGED <<alertVars, localStorage>>

CallDiversificationScore ==
    /\ pc = "call" /\ fn = "calculateDiversificationScore"
    /\ Return(calculateDiversificationScore(allocation))

CallRiskLevel ==
    /\ pc = "call" /\ fn = "assessRiskLevel"
    /\ Return(assessRiskLevel(allocation, assets))

CallAdvancedMetrics ==
    /\ pc = "call" /\ fn = "calculateAdvancedMetrics"
    /\ Return(calculateAdvancedMetrics(assets))

CallIdentifyPerformers ==
    /\ pc = "call" /\ fn = "identifyPerformers"
    /\ Return(identifyPerformers(assets, totalPortfolioValue))

CallValidatePortfolioData ==
    /\ pc = "call" /\ fn = "validatePortfolioData"
    /\ Return(validatePortfolioData(assets))

Next ==
    \/ CallDiversificationScore
    \/ CallRiskLevel
    \/ CallAdvancedMetrics
    \/ CallIdentifyPerformers
    \/ CallValidatePortfolioData

Spec == Init /\ [][Next]_vars

(***************************************************************************)
(* Properties.                                                             *)
(***************************************************************************)
Returns(f) == pc = "returned" /\ fn = f

\* every element of the array is an object (no null element)
AllObjects(a) == IsArray(a) /\ \A i \in 1..Len(a.items) : ~a.items[i].isNull

Maximum(S) == CHOOSE m \in S : \A x \in S : x <= m
Minimum(S) == CHOOSE m \in S : \A x \in S : m <= x

\* whether the body of the invoked function throws on the arguments
BodyThrows ==
    CASE fn = "calculateDiversificationScore" -> DiversificationBody(allocation).threw
      [] fn = "assessRiskLevel" -> RiskBody(allocation, assets).threw
      [] fn = "calculateAdvancedMetrics" -> MetricsBody(assets).threw
      [] fn = "identifyPerformers" -> PerformersBody(assets, totalPortfolioValue).threw
      [] fn = "validatePortfolioData" -> ValidationBody(assets).threw

\* C1: no engine function lets an exception reach its caller, and when the
\* body of the function throws the value returned is that function's
\* fallback: 0, 'Low', the all-zero metrics, {null, null},
\* {isValid: false, errors: ['Validation failed']}.
C1_NoThrow ==
    /\ pc # "threw"
    /\ (pc = "returned" /\ BodyThrows) =>
          CASE fn = "calculateDiversificationScore" -> result = Num(0)
            [] fn = "assessRiskLevel" -> result = "Low"
            [] fn = "calculateAdvancedMetrics" ->
                  result = [volatility |-> Num(0), sharpeRatio |-> Num(0),
                            maxDrawdown |-> Num(0)]
            [] fn = "identifyPerformers" ->
                  result.bestPerformer.isNull /\ result.worstPerformer.isNull
            [] fn = "validatePortfolioData" ->
                  result = [isValid |-> FALSE,
                            errors |-> <<Message(0, "Validation failed")>>]

\* identifyPerformers returned the fallback for a negative total although an
\* asset of the list gained
C1_Witness ==
    /\ Returns("identifyPerformers")
    /\ totalPortfolioValue = Num(-1)
    /\ AllObjects(assets)
    /\ \E i \in 1..Len(assets.items) :
          OrZero(assets.items[i].price_change_percentage_24h) > 0
    /\ result.bestPerformer.isNull

\* the inputs C2 is about: non-empty lists of objects with numeric percentages
ScorecardInput ==
    /\ AllObjects(allocation) /\ Len(allocation.items) > 0
    /\ AllObjects(assets) /\ Len(assets.items) > 0
    /\ \A i \in 1..Len(allocation.items) : allocation.items[i].percentage.k = "finite"

ScorecardMax == Maximum({allocation.items[i].percentage.v : i \in 1..Len(allocation.items)})

\* sum of |price_change_percentage_24h|, a missing change counting as 0
ScorecardAbsSum ==
    SumSeq([i \in 1..Len(assets.items) |->
               Abs(OrZero(assets.items[i].price_change_percentage_24h))], 1)

ScorecardScore ==
    LET count == Len(assets.items) IN
    (IF ScorecardMax > 7000 THEN 40 ELSE IF ScorecardMax > 4000 THEN 20 ELSE 0)
    + (IF count < 3 THEN 30 ELSE IF count < 5 THEN 15 ELSE 0)
    + (IF ScorecardAbsSum > 10000 * count THEN 30
       ELSE IF ScorecardAbsSum > 5000 * count THEN 15 ELSE 0)

ValidAllocation ==
    /\ AllObjects(allocation)
    /\ \A i \in 1..Len(allocation.items) :
          LET p == allocation.items[i].percentage
          IN  p.k = "finite" /\ 0 <= p.v /\ p.v <= 10000

\* sum of the squared percentages, in units of 10^-4
SquaredPercentages ==
    SumSeq([i \in 1..Len(allocation.items) |->
               allocation.items[i].percentage.v * allocation.items[i].percentage.v], 1)

\* clamp(100 - HHI / 100, 0, 100) rounded to 2 decimals, in hundredths
ClampedScore ==
    LET x == 100000000 - SquaredPercentages
        clamped == IF x < 0 THEN 0 ELSE IF x > 100000000 THEN 100000000 ELSE x
    IN  CHOOSE r \in 0..10000 : 2 * (10000 * r - clamped) <= 10000
                                /\ 2 * (clamped - 10000 * r) < 10000

\* C3: for an allocation of at least two entries with percentages in [0,100]
\* calculateDiversificationScore is clamp(100 - HHI/100, 0, 100) rounded to
\* 2 decimals, HHI being the sum of the squared percentages.
C3_ScoreFormula ==
    (Returns("calculateDiversificationScore") /\ ValidAllocation
        /\ Len(allocation.items) >= 2) =>
        result = Num(ClampedScore)

\* 12.5% and 33.33%: 100 - 1267.1389/100 = 87.328611, rounded up to 87.33
C3_Witness ==
    /\ Returns("calculateDiversificationScore") /\ ValidAllocation
    /\ Len(allocation.items) = 2
    /\ SquaredPercentages = 12671389
    /\ result = Num(8733)

\* C4: for every valid allocation (percentages in [0,100], any length, also
\* when they sum to more than 100) the score is between 0 and 100.
C4_ScoreBounds ==
    (Returns("calculateDiversificationScore") /\ ValidAllocation) =>
        result.k = "finite" /\ 0 <= result.v /\ result.v <= 10000

\* three entries of 100% each: 100 - 30000/100 is clamped to 0
C4_Witness ==
    /\ Returns("calculateDiversificationScore") /\ ValidAllocation
    /\ Len(allocation.items) = 3
    /\ SquaredPercentages = 300000000
    /\ result = Num(0)

\* the 24h changes of the assets, a missing change counting as 0
Changes == {OrZero(assets.items[i].price_change_percentage_24h) : i \in 1..Len(assets.items)}

ValidPerformersInput ==
    /\ AllObjects(assets)
    /\ totalPortfolioValue.k = "finite" /\ totalPortfolioValue.v >= 0

\* C5: with a valid total, bestPerformer is non-null exactly when some change
\* is > 0 and then has the maximum change; worstPerformer is non-null exactly
\* when some change is < 0 and then has the minimum change.
C5_Performers ==
    (Returns("identifyPerformers") /\ ValidPerformersInput) =>
        /\ ~result.bestPerformer.isNull <=> (\E c \in Changes : c > 0)
        /\ ~result.bestPerformer.isNull =>
              result.bestPerformer.percentage = Maximum(Changes)
        /\ ~result.worstPerformer.isNull <=> (\E c \in Changes : c < 0)
        /\ ~result.worstPerformer.isNull =>
              result.worstPerformer.percentage = Minimum(Changes)

\* two assets with different positive changes: a best performer, no worst
C5_Witness ==
    /\ Returns("identifyPerformers") /\ ValidPerformersInput
    /\ Changes = {2, 25}
    /\ ~result.bestPerformer.isNull /\ result.bestPerformer.percentage = 25
    /\ result.worstPerformer.isNull

\* the inputs C6 and C8 are about: a non-empty list of asset objects
NonEmptyAssets == AllObjects(assets) /\ Len(assets.items) > 0

ChangeSeq ==
    [i \in 1..Len(assets.items) |-> OrZero(assets.items[i].price_change_percentage_24h)]

\* the standard deviation of the changes is 0: they are all the same
ZeroVolatility == Cardinality(Changes) = 1

\* C6: for a non-empty asset list sharpeRatio is mean / volatility (rounded
\* to 2 decimals) when the volatility is not 0, and 0 whenever the
\* volatility is 0, e.g. for a single asset or assets with the same change.
C6_SharpeRatio ==
    (Returns("calculateAdvancedMetrics") /\ NonEmptyAssets) =>
        LET n == Len(assets.items)
            total == SumSeq(ChangeSeq, 1)
        IN  IF ZeroVolatility THEN result.sharpeRatio = Num(0)
            ELSE result.sharpeRatio =
                    Num(RoundedRatio(total, SquaredDeviations(ChangeSeq, 1, n, total), n))

\* C7: no result is NaN or non-finite: a number returned directly is finite
\* and every field of a returned AdvancedMetrics record is a finite number.
C7_FiniteResults ==
    /\ (Returns("calculateDiversificationScore")) => result.k = "finite"
    /\ (Returns("calculateAdvancedMetrics")) =>
          /\ result.volatility.k = "finite"
          /\ result.sharpeRatio.k = "finite"
          /\ result.maxDrawdown.k = "finite"

\* C8: for a non-empty asset list maxDrawdown is |min(0, least change)|
\* rounded to 2 decimals: 0 when no asset has a negative change.
C8_MaxDrawdown ==
    (Returns("calculateAdvancedMetrics") /\ NonEmptyAssets) =>
        LET least == Minimum(Changes \cup {0})
        IN  /\ result.maxDrawdown.k = "finite"
            /\ 2 * (10 * result.maxDrawdown.v + least) <= 10
            /\ 2 * (-least - 10 * result.maxDrawdown.v) < 10
            /\ (\A c \in Changes : c >= 0) => result.maxDrawdown = Num(0)

\* the least change is -0.006%, reported as a drawdown of 0.01
C8_Witness ==
    /\ Returns("calculateAdvancedMetrics") /\ NonEmptyAssets
    /\ Len(assets.items) >= 2
    /\ Minimum(Changes) = -6
    /\ result.maxDrawdown = Num(1)

\* the five checks in order; a number is a value whose typeof is 'number'
\* (NaN included); a price change is invalid when it is neither null nor a
\* number
Violates(asset, check) ==
    CASE check = 1 -> asset.id = ""
      [] check = 2 -> asset.symbol = ""
      [] check = 3 -> ~(asset.current_price.k \in {"finite", "NaN"}
                         /\ asset.current_price.v >= 0)
      [] check = 4 -> ~(asset.holding_quantity.k \in {"finite", "NaN"}
                         /\ asset.holding_quantity.v >= 0)
      [] check = 5 -> asset.price_change_percentage_24h.k \in {"undefined", "string"}

CheckText ==
    <<"Missing ID", "Missing symbol", "Invalid current price",
      "Invalid holding quantity", "Invalid price change percentage">>

\* every (asset position, check) pair, by position and then by check
AllChecks == [j \in 1..(5 * Len(assets.items)) |-> <<((j - 1) \div 5) + 1, ((j - 1) % 5) + 1>>]

IsViolated(pair) == Violates(assets.items[pair[1]], pair[2])

ExpectedErrors ==
    LET violated == SelectSeq(AllChecks, IsViolated)
    IN  [j \in 1..Len(violated) |-> Message(violated[j][1], CheckText[violated[j][2]])]

C10_OptionalPriceChange ==
    (Returns("validatePortfolioData") /\ NonEmptyAssets) =>
        /\ \A i \in 1..Len(assets.items) :
              assets.items[i].price_change_percentage_24h.k \in {"undefined", "null"}
                 => \A j \in 1..Len(result.errors) :
                       result.errors[j] # Message(i, "Invalid price change percentage")
        /\ (\A i \in 1..Len(assets.items) :
               /\ assets.items[i].price_change_percentage_24h.k \in {"undefined", "null"}
               /\ \A check \in 1..4 : ~Violates(assets.items[i], check))
             => result.isValid

\* C11: validatePortfolioData returns exactly
\* {isValid: false, errors: ['Assets must be an array']} for every non-array
\* and exactly {isValid: false, errors: ['Portfolio cannot be empty']} for the
\* empty array, with no per-asset message.
C11_WholePortfolioErrors ==
    Returns("validatePortfolioData") =>
        /\ ~IsArray(assets) =>
              result = [isValid |-> FALSE,
                        errors |-> <<Message(0, "Assets must be an array")>>]
        /\ (IsArray(assets) /\ Len(assets.items) = 0) =>
              result = [isValid |-> FALSE,
                        errors |-> <<Message(0, "Portfolio cannot be empty")>>]

\* the empty array was validated
C11_Witness ==
    /\ Returns("validatePortfolioData")
    /\ assets = Arr(<<>>)
    /\ ~result.isValid
    /\ Len(result.errors) = 1

\* the position of the first asset whose change (missing as 0) is c
FirstWithChange(c) ==
    Minimum({i \in 1..Len(assets.items) :
                OrZero(assets.items[i].price_change_percentage_24h) = c})

\* C12: among assets sharing the maximum change (> 0) bestPerformer is the
\* first of the input list, among assets sharing the minimum change (< 0)
\* worstPerformer is the first of the input list.
C12_FirstWinsTies ==
    (Returns("identifyPerformers") /\ ValidPerformersInput) =>
        /\ ~result.bestPerformer.isNull =>
              result.bestPerformer.asset = assets.items[FirstWithChange(Maximum(Changes))]
        /\ ~result.worstPerformer.isNull =>
              result.worstPerformer.asset = assets.items[FirstWithChange(Minimum(Changes))]

\* ripple and bitcoin tie at the maximum, dogecoin and ethereum at the
\* minimum; the ones that come first are returned
C12_Witness ==
    /\ Returns("identifyPerformers") /\ ValidPerformersInput
    /\ Len(assets.items) = 3
    /\ assets.items[1].id = "ripple" /\ assets.items[2].id = "bitcoin"
    /\ assets.items[1].price_change_percentage_24h
          = assets.items[2].price_change_percentage_24h
    /\ result.bestPerformer.asset.id = "ripple"

\* C13: calculateDiversificationScore returns exactly 0 for the empty
\* allocation and for every allocation of one entry, whatever the entry is.
C13_EmptyOrSingle ==
    (Returns("calculateDiversificationScore") /\ IsArray(allocation)
        /\ Len(allocation.items) <= 1) =>
        result = Num(0)

\* one entry of 50%, for which the formula would give 75
C13_Witness ==
    /\ Returns("calculateDiversificationScore") /\ IsArray(allocation)
    /\ Len(allocation.items) = 1
    /\ ~allocation.items[1].isNull
    /\ allocation.items[1].percentage = Num(5000)
    /\ result = Num(0)

\* some entry of the allocation has a percentage that is not a number in
\* [0,100]
SomeInvalidPercentage ==
    \E i \in 1..Len(allocation.items) :
        LET p == allocation.items[i].percentage
        IN  ~(p.k = "finite" /\ 0 <= p.v /\ p.v <= 10000)

\* C14: with at least two entries, one of which has a percentage that is
\* negative, above 100, NaN or not a number, calculateDiversificationScore
\* returns 0 and does not throw.
C14_InvalidPercentage ==
    /\ fn = "calculateDiversificationScore" => pc # "threw"
    /\ (Returns("calculateDiversificationScore") /\ IsArray(allocation)
          /\ Len(allocation.items) >= 2 /\ SomeInvalidPercentage) =>
          result = Num(0)

\* the last of three entries is -0.01%, the others are 50% and 12.5%
C14_Witness ==
    /\ Returns("calculateDiversificationScore") /\ AllObjects(allocation)
    /\ Len(allocation.items) = 3
    /\ allocation.items[1].percentage = Num(5000)
    /\ allocation.items[2].percentage = Num(1250)
    /\ allocation.items[3].percentage = Num(-1)
    /\ result = Num(0)

\* C15: for every asset count n >= 2 the allocation with one asset at 90%
\* and the rest splitting 10% equally scores strictly lower than the even
\* split over the same n assets.
C15_ConcentrationLowersScore ==
    \A n \in 2..MaxSplit :
        (Returns("calculateDiversificationScore")
            /\ allocation = Arr(Concentrated(n))) =>
            /\ result.k = "finite"
            /\ result.v < calculateDiversificationScore(Arr(EvenSplit(n))).val.v

\* 90% and three times 3.33%: 100 - 81.33 = 18.67, against 75 for 4 x 25%
C15_Witness ==
    /\ Returns("calculateDiversificationScore")
    /\ allocation = Arr(Concentrated(4))
    /\ result = Num(1867)
    /\ calculateDiversificationScore(Arr(EvenSplit(4))).val = Num(7500)

\* C16: assessRiskLevel returns High for every portfolio whose largest
\* percentage is above 70 and that has one or two assets, whatever their
\* 24h changes.
C16_ConcentratedFewAssets ==
    (Returns("assessRiskLevel") /\ ScorecardInput
        /\ ScorecardMax > 7000 /\ Len(assets.items) < 3) =>
        result = "High"

\* 70.01% in one entry, two assets without any change: 40 + 30 + 0
C16_Witness ==
    /\ Returns("assessRiskLevel") /\ ScorecardInput
    /\ ScorecardMax = 7001
    /\ Len(assets.items) = 2
    /\ ScorecardAbsSum = 0
    /\ result = "High"

\* C17: assessRiskLevel returns Low whenever the allocation list or the
\* asset list (or both) is empty, as a default and not as a score.
C17_EmptyIsLow ==
    (Returns("assessRiskLevel") /\ IsArray(allocation) /\ IsArray(assets)
        /\ (Len(allocation.items) = 0 \/ Len(assets.items) = 0)) =>
        result = "Low"

\* no allocation, one asset at +15%: the factors would add up to 60
C17_Witness ==
    /\ Returns("assessRiskLevel")
    /\ allocation = Arr(<<>>)
    /\ AllObjects(assets) /\ Len(assets.items) = 1
    /\ ScorecardAbsSum = 15000
    /\ result = "Low"

\* the portfolio C18 is about: five assets at 20% each
EvenFivePortfolio ==
    /\ allocation = EvenFiveAllocation
    /\ AllObjects(assets) /\ Len(assets.items) = 5

\* C18 as stated: assessRiskLevel returns Low for every portfolio evenly
\* split across 5 assets at 20% each in which every 24h change is <= 5.
C18_SignedChanges ==
    (Returns("assessRiskLevel") /\ EvenFivePortfolio
        /\ \A c \in Changes : c <= 5000) =>
        result = "Low"

\* C18 amended: assessRiskLevel returns Low for every portfolio evenly split
\* across 5 assets at 20% each in which every 24h change is at most 5 in
\* absolute value.
C18_CalmEvenSplit ==
    (Returns("assessRiskLevel") /\ EvenFivePortfolio
        /\ \A c \in Changes : Abs(c) <= 5000) =>
        result = "Low"

\* changes of +5% and -5%: a mean absolute change of exactly 5
C18_Witness ==
    /\ Returns("assessRiskLevel") /\ EvenFivePortfolio
    /\ Changes = {5000, -5000}
    /\ result = "Low"

DesignLevel ==
    LET count == Len(assets.items) IN
    IF ScorecardMax > 7000 \/ count < 3 \/ ScorecardAbsSum > 10000 * count
    THEN "High"
    ELSE IF ScorecardMax > 4000 \/ count < 5 \/ ScorecardAbsSum > 5000 * count
    THEN "Medium"
    ELSE "Low"

\* C20: the level is High whenever more than 70% is in one asset or there
\* are fewer than 3 assets or the volatility is high, Medium whenever more
\* than 40% is in one asset or there are fewer than 5 assets or the
\* volatility is medium, and Low otherwise.
C20_DesignRule ==
    (Returns("assessRiskLevel") /\ ScorecardInput) => result = DesignLevel

\* an allocation entry whose percentage is a number outside [0, 100]
SomeOutOfRangePercentage ==
    /\ AllObjects(allocation) /\ Len(allocation.items) > 0
    /\ \E i \in 1..Len(allocation.items) :
          LET p == allocation.items[i].percentage
          IN  p.k = "finite" /\ (p.v < 0 \/ p.v > 10000)

\* an asset whose current_price is negative
SomeNegativePrice ==
    /\ AllObjects(assets)
    /\ \E i \in 1..Len(assets.items) :
          LET p == assets.items[i].current_price IN p.k = "finite" /\ p.v < 0

\* C21: a contract violation inside a calculation gives the fallback:
\* assessRiskLevel returns Low for an allocation entry with a percentage
\* outside [0,100] (the asset list being a non-null array); identifyPerformers
\* returns {null, null} and calculateAdvancedMetrics the all-zero record for
\* an asset with a negative current_price.
C21_ContractViolations ==
    /\ (Returns("assessRiskLevel") /\ SomeOutOfRangePercentage) => result = "Low"
    /\ (Returns("identifyPerformers") /\ SomeNegativePrice) =>
          result.bestPerformer.isNull /\ result.worstPerformer.isNull
    /\ (Returns("calculateAdvancedMetrics") /\ SomeNegativePrice) =>
          result = [volatility |-> Num(0), sharpeRatio |-> Num(0),
                    maxDrawdown |-> Num(0)]

\* C22: calculateAdvancedMetrics([]) returns exactly
\* {volatility: 0, sharpeRatio: 0, maxDrawdown: 0}, with no other field.
C22_EmptyMetrics ==
    (Returns("calculateAdvancedMetrics") /\ IsArray(assets) /\ Len(assets.items) = 0) =>
        /\ DOMAIN result = {"volatility", "sharpeRatio", "maxDrawdown"}
        /\ result.volatility = Num(0)
        /\ result.sharpeRatio = Num(0)
        /\ result.maxDrawdown = Num(0)

C22_Witness ==
    /\ Returns("calculateAdvancedMetrics")
    /\ assets = Arr(<<>>)
    /\ result.maxDrawdown = Num(0)

\* C23 as stated: for a non-empty asset list volatility >= 0 and
\* maxDrawdown >= 0, and volatility is 0 exactly when all assets have the
\* same 24h change (a missing change counting as 0).
C23_ZeroIffSameChange ==
    (Returns("calculateAdvancedMetrics") /\ NonEmptyAssets) =>
        /\ result.volatility.k = "finite" /\ result.volatility.v >= 0
        /\ result.maxDrawdown.k = "finite" /\ result.maxDrawdown.v >= 0
        /\ (result.volatility = Num(0)) <=> ZeroVolatility

\* C23 amended: for a non-empty asset list volatility >= 0 and
\* maxDrawdown >= 0, and volatility is 0 whenever all assets have the same
\* 24h change (a missing change counting as 0).
C23_NonNegative ==
    (Returns("calculateAdvancedMetrics") /\ IsArray(assets) /\ Len(assets.items) > 0) =>
        /\ result.volatility.k = "finite" /\ result.volatility.v >= 0
        /\ result.maxDrawdown.k = "finite" /\ result.maxDrawdown.v >= 0
        /\ (NonEmptyAssets /\ ZeroVolatility) => result.volatility = Num(0)

\* three assets that all gained 0.025%: volatility 0, no drawdown
C23_Witness ==
    /\ Returns("calculateAdvancedMetrics") /\ NonEmptyAssets
    /\ Len(assets.items) = 3
    /\ Changes = {25}
    /\ result.volatility = Num(0)
    /\ result.maxDrawdown = Num(0)

\* whether the change of an asset is missing: null or absent
MissingChange(asset) ==
    ~asset.isNull /\ asset.price_change_percentage_24h.k \in {"null", "undefined"}

\* the asset list with every missing change replaced by the number 0
ZeroedAssets ==
    IF ~IsArray(assets) THEN assets
    ELSE Arr([i \in 1..Len(assets.items) |->
                 IF MissingChange(assets.items[i])
                 THEN [assets.items[i] EXCEPT !.price_change_percentage_24h = Num(0)]
                 ELSE assets.items[i]])

\* two performers are the same choice with the same figures
SamePerformer(p, q) ==
    /\ p.isNull = q.isNull
    /\ ~p.isNull => /\ p.asset.id = q.asset.id
                    /\ p.percentage = q.percentage
                    /\ p.gainLoss = q.gainLoss

\* C24: a missing price_change_percentage_24h counts as 0: replacing every
\* missing change by the number 0 leaves the risk level, every metric, and
\* the choice, percentage and gainLoss of both performers unchanged.
C24_MissingIsZero ==
    /\ Returns("assessRiskLevel") =>
          result = assessRiskLevel(allocation, ZeroedAssets).val
    /\ Returns("calculateAdvancedMetrics") =>
          result = calculateAdvancedMetrics(ZeroedAssets).val
    /\ Returns("identifyPerformers") =>
          LET zeroed == identifyPerformers(ZeroedAssets, totalPortfolioValue).val
          IN  /\ SamePerformer(result.bestPerformer, zeroed.bestPerformer)
              /\ SamePerformer(result.worstPerformer, zeroed.worstPerformer)

\* a missing change and a loss of 0.006%: volatility 0.003 rounds to 0,
\* the ratio is -1 and the drawdown 0.01, as for changes of 0 and -0.006%
C24_Witness ==
    /\ Returns("calculateAdvancedMetrics") /\ NonEmptyAssets
    /\ Len(assets.items) = 2
    /\ MissingChange(assets.items[1])
    /\ assets.items[2].price_change_percentage_24h = Num(-6)
    /\ result.sharpeRatio = Num(-100)
    /\ result.maxDrawdown = Num(1)

\* the figures of a performer follow from the fields of its asset
PerformerFigures(p) ==
    ~p.isNull =>
        /\ \E i \in 1..Len(assets.items) : assets.items[i] = p.asset
        /\ p.value = p.asset.current_price.v * p.asset.holding_quantity.v
        /\ p.asset.price_change_percentage_24h = Num(p.percentage)
        /\ p.gainLoss = p.asset.current_price.v * p.asset.holding_quantity.v
                        * p.asset.price_change_percentage_24h.v

NonNegativeHolding(p) ==
    p.asset.current_price.v >= 0 /\ p.asset.holding_quantity.v >= 0

\* C25: a performer returned by identifyPerformers has value = current_price
\* x holding_quantity of its asset, percentage = the asset's 24h change and
\* gainLoss = value x percentage / 100 (here in units of 10^-5); for a
\* non-negative price and quantity the best performer's gainLoss is >= 0 and
\* the worst performer's is <= 0.
C25_PerformerData ==
    Returns("identifyPerformers") =>
        /\ PerformerFigures(result.bestPerformer)
        /\ PerformerFigures(result.worstPerformer)
        /\ (~result.bestPerformer.isNull /\ NonNegativeHolding(result.bestPerformer))
              => result.bestPerformer.gainLoss >= 0
        /\ (~result.worstPerformer.isNull /\ NonNegativeHolding(result.worstPerformer))
              => result.worstPerformer.gainLoss <= 0

\* bitcoin (100 x 2, +0.025%) gained 0.05 and ethereum (10 x 3, -0.006%)
\* lost 0.0018
C25_Witness ==
    /\ Returns("identifyPerformers")
    /\ ~result.bestPerformer.isNull /\ ~result.worstPerformer.isNull
    /\ result.bestPerformer.asset.id = "bitcoin"
    /\ result.bestPerformer.value = 200
    /\ result.bestPerformer.gainLoss = 5000
    /\ result.worstPerformer.asset.id = "ethereum"
    /\ result.worstPerformer.gainLoss = -180

\* C27: identifyPerformers depends on totalPortfolioValue only through its
\* being a number >= 0: every such total gives the result of a total of 0,
\* and a negative, NaN or non-numeric total gives {null, null}.
C27_TotalOnlyValidated ==
    Returns("identifyPerformers") =>
        IF totalPortfolioValue.k = "finite" /\ totalPortfolioValue.v >= 0
        THEN result = identifyPerformers(assets, Num(0)).val
        ELSE result.bestPerformer.isNull /\ result.worstPerformer.isNull

\* a total of 85000 for a single holding worth 200 that gained
C27_Witness ==
    /\ Returns("identifyPerformers")
    /\ totalPortfolioValue = Num(85000)
    /\ NonEmptyAssets /\ Len(assets.items) = 1
    /\ ~result.bestPerformer.isNull
    /\ result.bestPerformer.value = 200

\* every 24h change has at most 2 decimals
TwoDecimalChanges == NonEmptyAssets /\ \A c \in Changes : c % 10 = 0

\* maxDrawdown (hundredths) against the worst performer (thousandths)
SameDecline(maxDrawdown, worstPerformer) ==
    /\ worstPerformer.isNull <=> maxDrawdown = Num(0)
    /\ ~worstPerformer.isNull => maxDrawdown = Num(Abs(worstPerformer.percentage) \div 10)

\* C28: for a non-empty asset list with a valid total and 24h changes of at
\* most 2 decimals, worstPerformer is null exactly when maxDrawdown is 0,
\* and otherwise maxDrawdown is the absolute value of
\* worstPerformer.percentage.
C28_WorstDecline ==
    /\ (Returns("calculateAdvancedMetrics") /\ TwoDecimalChanges) =>
          SameDecline(result.maxDrawdown,
                      identifyPerformers(assets, Num(0)).val.worstPerformer)
    /\ (Returns("identifyPerformers") /\ TwoDecimalChanges
           /\ totalPortfolioValue.k = "finite" /\ totalPortfolioValue.v >= 0) =>
          SameDecline(calculateAdvancedMetrics(assets).val.maxDrawdown,
                      result.worstPerformer)

\* losses of 0.01% and 0.02% and a gain: the worst performer lost 0.02%
C28_Witness ==
    /\ Returns("identifyPerformers") /\ TwoDecimalChanges
    /\ totalPortfolioValue = Num(0)
    /\ Changes = {-10, -20, 10}
    /\ result.worstPerformer.percentage = -20
    /\ calculateAdvancedMetrics(assets).val.maxDrawdown = Num(2)

\* C29: an alert fires at most once per activation: between its creation or
\* its reactivation by toggleAlert and the next reactivation, triggerAlert
\* sends its notifications at most once, whatever the interleaving of the
\* checkAlerts runs with each other and with updateAlert, deleteAlert and
\* toggleAlert.
C29_FiresOncePerActivation ==
    \A id \in AlertIds : notifications[id] <= 1

\* the ids of a list of stored assets are pairwise different
UniqueIds(userAssets) ==
    \A i, j \in 1..Len(userAssets) :
        userAssets[i].id = userAssets[j].id => i = j

\* the stored list after the step
StoredAssetsAfter == loadPortfolioData(localStorage'[PortfolioKey])

\* adding an id that is stored: no entry more, the quantity of its entry
\* increased by the quantity added, the other entries as they were
AddedToEntry(asset) ==
    LET index == FindIndex(StoredAssets, asset.id) IN
    /\ Len(StoredAssetsAfter) = Len(StoredAssets)
    /\ \A i \in 1..Len(StoredAssets) :
          /\ StoredAssetsAfter[i].id = StoredAssets[i].id
          /\ i # index => StoredAssetsAfter[i] = StoredAssets[i]
    /\ (StoredAssets[index].holding_quantity.k = "finite"
           /\ asset.holding_quantity.k = "finite") =>
          StoredAssetsAfter[index].holding_quantity =
              Num(StoredAssets[index].holding_quantity.v + asset.holding_quantity.v)

\* the entry of id is gone and the other entries are as they were
EntryRemoved(id) ==
    /\ Len(StoredAssetsAfter) = Len(StoredAssets) - 1
    /\ \A i \in 1..Len(StoredAssetsAfter) : StoredAssetsAfter[i].id # id
    /\ \A i \in 1..Len(StoredAssets) :
          StoredAssets[i].id # id =>
              \E j \in 1..Len(StoredAssetsAfter) : StoredAssetsAfter[j] = StoredAssets[i]

====
